---- MODULE Spec2Model ----
(***************************************************************************)
(* Model of soci-index-generator-standalone/handler.go: one invocation of  *)
(* handleRequest (the main flow) together with the goroutine started by    *)
(* setDeadline (the deadline watcher).                                     *)
(*                                                                         *)
(* Strings are sequences of one-character strings.  Errors are records     *)
(* [kind, text]: text is what err.Error() returns, kind is the condition   *)
(* the collaborator reports.  Time is counted in seconds.                  *)
(*                                                                         *)
(* os.RemoveAll is taken to remove the tree; the branch of cleanUp that    *)
(* logs a removal error changes no program state and is not a step here.   *)
(***************************************************************************)
EXTENDS Integers, Sequences, FiniteSets, TLC

\* ---------------------------------------------------------------- bounds
MaxTime == 3
MaxDescs == 3
MaxStamp == 2

\* ------------------------------------------------------------- constants
SafetyMargin == 10

ErrEmptyIndexText == "no ztocs created, all layers either skipped or produced errors"
BuildFailedMessage == "SOCI index build error"
PushFailedMessage == "SOCI index push error"
SkipPushOnEmptyIndexMessage == "Skipping pushing SOCI index as it does not contain any zTOCs"
BuildAndPushSuccessMessage == "Successfully built and pushed SOCI index"
ValidationSkipMessage == "Exited early due to manifest validation error"
DirectoryErrorMessage == "Directory create error"
StoreInitErrorMessage == "OCI storage initialization error"
PullErrorMessage == "Image pull error"
NoIndicesText == "No SOCI indices found in OCI store"

\* ---------------------------------------------------------------- errors
NoErr == [kind |-> "nil", text |-> "nil"]

Err(kind, text) == [kind |-> kind, text |-> text]

ErrEmptyIndex == Err("emptyIndex", ErrEmptyIndexText)

\* Errors each collaborator may hand back (two per call, so that the value
\* returned can be told apart from a fixed one).
InitErrs == {Err("init", "registry init failed")}
ValidateErrs == {Err("validate", "unsupported media type"), Err("validate", "manifest not found")}
MkdirErrs == {Err("mkdir", "no space left on device"), Err("mkdir", "permission denied")}
StoreErrs == {Err("store", "invalid OCI layout"), Err("store", "no such file or directory")}
PullErrs == {Err("pull", "pull failed"), Err("pull", "no such file or directory")}
PushErrs == {Err("push", "push denied"), Err("push", "blob not found")}
\* builder.Build reports the "no ztocs" condition either with the bare
\* text or wrapped by a caller in the library; other failures carry other text.
BuildErrs == {ErrEmptyIndex,
              Err("emptyIndex", "build: no ztocs created, all layers either skipped or produced errors"),
              Err("build", "ztoc build failed")}

\* --------------------------------------------------------------- strings
RECURSIVE Split(_, _)
Split(s, sep) ==
  IF \A i \in 1..Len(s) : s[i] # sep
  THEN <<s>>
  ELSE LET i == CHOOSE k \in 1..Len(s) : s[k] = sep /\ \A j \in 1..(k-1) : s[j] # sep
       IN  <<SubSeq(s, 1, i-1)>> \o Split(SubSeq(s, i+1, Len(s)), sep)

HasPrefix(s, p) == Len(p) <= Len(s) /\ SubSeq(s, 1, Len(p)) = p

HasSuffix(s, p) == Len(p) <= Len(s) /\ SubSeq(s, Len(s) - Len(p) + 1, Len(s)) = p

TrimPrefix(s, p) == IF HasPrefix(s, p) THEN SubSeq(s, Len(p) + 1, Len(s)) ELSE s

TrimSuffix(s, p) == IF HasSuffix(s, p) THEN SubSeq(s, 1, Len(s) - Len(p)) ELSE s

\* The image references handed to handleRequest.
ImageUrls ==
  { <<"h", "/", "r", ":", "d">>,
    <<"h", "/", "r", "@", "s", ":", "x">>,
    <<"h", "/", "r", ":", "s", ":", "x">>,
    <<"h", ":", "p", "/", "r", ":", "d">>,
    <<"h", "r", ":", "d">>,
    <<"h", "/", "r">>,
    << >> }

\* Deadlines of the invocation's context, in seconds after its start:
\* already inside the safety margin, shortly after it, and far away.
Deadlines == {SafetyMargin - 1, SafetyMargin + 2, SafetyMargin + MaxTime + 2}

VARIABLES
  imageUrl, deadline,              \* inputs
  pc,                              \* position of the main flow
  digest, registryHost, repo,      \* parsed reference
  registry, initErr, validateErr,  \* registry handle and early errors
  lastErr,                         \* error of the collaborator call that failed
  ret,                             \* (message, error) handleRequest returns
  dirCreated, dirExists,           \* workspace directory
  watcher, trigger, timerConsumed, timeoutLogged,
  quitSent, sendTime,
  sends,                           \* completed sends on quitChannel
  calls, cleanUps,
  collRead,                        \* GetIndexDescriptorCollection returned
  descs, indexDescriptor, pushed,
  now

vars == <<imageUrl, deadline, pc, digest, registryHost, repo, registry, initErr,
          validateErr, lastErr, ret, dirCreated, dirExists, watcher, trigger,
          timerConsumed, timeoutLogged, quitSent, sendTime, sends, calls,
          cleanUps, collRead, descs, indexDescriptor, pushed, now>>

NoRet == [msg |-> "", err |-> NoErr]

NoDesc == [Digest |-> 0, CreatedAt |-> 0]

Init ==
  /\ imageUrl \in ImageUrls
  /\ deadline \in Deadlines
  /\ pc = "parse"
  /\ digest = << >> /\ registryHost = << >> /\ repo = << >>
  /\ registry = "none" /\ initErr = NoErr /\ validateErr = NoErr
  /\ lastErr = NoErr
  /\ ret = NoRet
  /\ dirCreated = FALSE /\ dirExists = FALSE
  /\ watcher = "NotStarted" /\ trigger = 0
  /\ timerConsumed = FALSE /\ timeoutLogged = FALSE
  /\ quitSent = FALSE /\ sendTime = 0 /\ sends = 0
  /\ calls = [Init |-> 0, ValidateImageManifest |-> 0, createTempDir |-> 0,
              initSociStore |-> 0, Pull |-> 0, buildIndex |-> 0, Push |-> 0]
  /\ cleanUps = [main |-> 0, watcher |-> 0]
  /\ collRead = FALSE
  /\ descs = << >> /\ indexDescriptor = NoDesc /\ pushed = NoDesc
  /\ now = 0

\* ------------------------------------------------------- pure decisions
\* variant: the cause is dropped from the returned pair
lambdaError_dropsCause(msg, err) == [msg |-> msg, err |-> NoErr]

\* lambdaError logs and returns its arguments.
lambdaError(msg, err) == [msg |-> msg, err |-> err]

\* variant: a validation error is returned like any other failure
OnValidateError_asFailure(err) == [msg |-> "Manifest validation error", err |-> err]

\* handler.go:61-65: a validation error is logged and turned into a skip.
OnValidateError(err) == [msg |-> ValidationSkipMessage, err |-> NoErr]

\* handler.go:98-104: the empty-index condition is recognised by its text.
OnBuildError(err) ==
  IF err.text = ErrEmptyIndex.text
  THEN [msg |-> SkipPushOnEmptyIndexMessage, err |-> NoErr]
  ELSE lambdaError(BuildFailedMessage, err)

\* variant: the result of Push is not looked at
OnPushResult_ignoresErr(err) == [msg |-> BuildAndPushSuccessMessage, err |-> NoErr]

\* handler.go:107-113
OnPushResult(err) ==
  IF err # NoErr
  THEN lambdaError(PushFailedMessage, err)
  ELSE [msg |-> BuildAndPushSuccessMessage, err |-> NoErr]

\* variant: nothing is removed
cleanUp_keeps(exists) == exists

\* cleanUp: os.RemoveAll(dataDir); the result is whether the directory exists.
cleanUp(exists) == FALSE

\* Collaborators write under dataDir; when the directory is gone their
\* MkdirAll/create calls may bring the path back or fail.
Writes(exists) == IF exists THEN {TRUE} ELSE {TRUE, FALSE}

\* variant: the comparator uses After
Less_after(a, b) == a.CreatedAt > b.CreatedAt

\* comparator handed to sort.Slice (handler.go:230-232)
Less(a, b) == a.CreatedAt < b.CreatedAt

Perms(n) == {p \in [1..n -> 1..n] : \A i, j \in 1..n : i # j => p[i] # p[j]}

\* sort.Slice is not stable: every arrangement ordered by Less is a
\* possible result.
SortSlice(s) ==
  { [i \in 1..Len(s) |-> s[p[i]]] :
      p \in { q \in Perms(Len(s)) :
                \A i, j \in 1..Len(s) : i < j => ~Less(s[q[j]], s[q[i]]) } }

\* What GetIndexDescriptorCollection may return: up to MaxDescs descriptors,
\* the i-th with digest i, with every assignment of creation times.
DescCollections ==
  UNION { { [i \in 1..n |-> [Digest |-> i, CreatedAt |-> t[i]]] :
              t \in [1..n -> 1..MaxStamp] } : n \in 0..MaxDescs }

\* variant: the empty collection is not checked for
SelectDescriptor_noEmptyCheck(coll) ==
  IF Len(coll) = 0
  THEN {[desc |-> NoDesc, err |-> NoErr]}
  ELSE {[desc |-> sorted[Len(sorted)], err |-> NoErr] : sorted \in SortSlice(coll)}

\* buildIndex, handler.go:223-234, given the collection read from the store:
\* the set of (descriptor, error) results.
SelectDescriptor(coll) ==
  IF Len(coll) = 0
  THEN {[desc |-> NoDesc, err |-> Err("build", NoIndicesText)]}
  ELSE {[desc |-> sorted[Len(sorted)], err |-> NoErr] : sorted \in SortSlice(coll)}

\* variant: the quit case does not return, the loop keeps running
WatcherOnQuit_keepsLooping == "Armed"

\* state of the watcher goroutine after the quit case of its select
WatcherOnQuit == "Cancelled"

\* variant: the timeout case does not return, the loop keeps running
WatcherOnFire_keepsLooping == "Armed"

\* state of the watcher goroutine after the timeout case of its select
WatcherOnFire == "Fired"

\* variant: the timer is set without regard to the deadline and is due at once
TimerReady_dueAtOnce == ~timerConsumed

\* time.After delivers one value once the trigger time is reached
TimerReady == now >= trigger /\ ~timerConsumed

\* --------------------------------------------------------------- actions
inputs == <<imageUrl, deadline>>

parsed == <<digest, registryHost, repo>>

early == <<registry, initErr, validateErr>>

wvars == <<watcher, trigger, timerConsumed, timeoutLogged, quitSent, sendTime, sends>>

bvars == <<collRead, descs, indexDescriptor, pushed>>

Called(f) == [calls EXCEPT ![f] = @ + 1]

\* handler.go:48-51
Parse ==
  /\ pc = "parse"
  /\ LET colonParts == Split(imageUrl, ":")
         host == Split(imageUrl, "/")[1]
     IN  IF Len(colonParts) < 2
         THEN /\ pc' = "panicked"
              /\ UNCHANGED parsed
         ELSE /\ digest' = colonParts[2]
              /\ registryHost' = host
              /\ repo' = TrimSuffix(TrimPrefix(imageUrl, host \o <<"/">>),
                                    <<":">> \o colonParts[2])
              /\ pc' = "init"
  /\ UNCHANGED <<inputs, early, lastErr, ret, dirCreated, dirExists, wvars,
                 calls, cleanUps, bvars, now>>

\* handler.go:55-58: an Init error is printed and the flow goes on with
\* whatever handle Init returned (nil or a handle that still works).
RegistryInit ==
  /\ pc = "init"
  /\ \E e \in InitErrs \cup {NoErr} :
       /\ initErr' = e
       /\ registry' \in (IF e = NoErr THEN {"usable"} ELSE {"nil", "usable"})
  /\ calls' = Called("Init")
  /\ pc' = "validate"
  /\ UNCHANGED <<inputs, parsed, validateErr, lastErr, ret, dirCreated,
                 dirExists, wvars, cleanUps, bvars, now>>

\* handler.go:60-65.  On a nil handle the call dereferences nil (panic) or
\* reports an error; no defer is registered yet, so a return is immediate.
Validate ==
  /\ pc = "validate"
  /\ calls' = Called("ValidateImageManifest")
  /\ \/ /\ registry = "nil"
        /\ pc' = "panicked"
        /\ UNCHANGED <<validateErr, ret>>
     \/ /\ \E e \in ValidateErrs :
             /\ validateErr' = e
             /\ ret' = OnValidateError(e)
        /\ pc' = "returned"
     \/ /\ registry = "usable"
        /\ pc' = "mkdir"
        /\ UNCHANGED <<validateErr, ret>>
  /\ UNCHANGED <<inputs, parsed, registry, initErr, lastErr, dirCreated,
                 dirExists, wvars, cleanUps, bvars, now>>

\* handler.go:68-71 and createTempDir
CreateTempDir ==
  /\ pc = "mkdir"
  /\ calls' = Called("createTempDir")
  /\ \E e \in MkdirErrs \cup {NoErr} :
       IF e # NoErr
       THEN /\ lastErr' = e
            /\ ret' = lambdaError(DirectoryErrorMessage, e)
            /\ pc' = "returned"
            /\ UNCHANGED <<dirCreated, dirExists>>
       ELSE /\ dirCreated' = TRUE
            /\ dirExists' = TRUE
            /\ pc' = "setDeadline"
            /\ UNCHANGED <<lastErr, ret>>
  /\ UNCHANGED <<inputs, parsed, early, wvars, cleanUps, bvars, now>>

\* handler.go:72-80 and setDeadline: the two defers are registered, the
\* trigger time is computed and the watcher goroutine is started.
SetDeadline ==
  /\ pc = "setDeadline"
  /\ trigger' = deadline - SafetyMargin
  /\ watcher' = "Armed"
  /\ pc' = "initStore"
  /\ UNCHANGED <<inputs, parsed, early, lastErr, ret, dirCreated, dirExists,
                 timerConsumed, timeoutLogged, quitSent, sendTime, sends,
                 calls, cleanUps, bvars, now>>

\* variant: the defers are registered only after the store is initialised,
\* so a store failure returns without the send and the cleanUp
InitSociStore_returnsDirectly ==
  /\ pc = "initStore"
  /\ calls' = Called("initSociStore")
  /\ dirExists' \in Writes(dirExists)
  /\ \E e \in StoreErrs \cup {NoErr} :
       IF e # NoErr
       THEN /\ lastErr' = e
            /\ ret' = lambdaError(StoreInitErrorMessage, e)
            /\ pc' = "returned"
       ELSE /\ pc' = "pull"
            /\ UNCHANGED <<lastErr, ret>>
  /\ UNCHANGED <<inputs, parsed, early, dirCreated, wvars, cleanUps, bvars, now>>

\* handler.go:82-85
InitSociStore ==
  /\ pc = "initStore"
  /\ calls' = Called("initSociStore")
  /\ dirExists' \in Writes(dirExists)
  /\ \E e \in StoreErrs \cup {NoErr} :
       IF e # NoErr
       THEN /\ lastErr' = e
            /\ ret' = lambdaError(StoreInitErrorMessage, e)
            /\ pc' = "deferSend"
       ELSE /\ pc' = "pull"
            /\ UNCHANGED <<lastErr, ret>>
  /\ UNCHANGED <<inputs, parsed, early, dirCreated, wvars, cleanUps, bvars, now>>

\* variant: the error of Pull is not checked before the build
Pull_continuesAfterError ==
  /\ pc = "pull"
  /\ calls' = Called("Pull")
  /\ dirExists' \in Writes(dirExists)
  /\ \E e \in PullErrs \cup {NoErr} :
       IF e # NoErr
       THEN /\ lastErr' = e
            /\ ret' = lambdaError(PullErrorMessage, e)
            /\ pc' = "build"
       ELSE /\ pc' = "build"
            /\ UNCHANGED <<lastErr, ret>>
  /\ UNCHANGED <<inputs, parsed, early, dirCreated, wvars, cleanUps, bvars, now>>

\* handler.go:87-90
Pull ==
  /\ pc = "pull"
  /\ calls' = Called("Pull")
  /\ dirExists' \in Writes(dirExists)
  /\ \E e \in PullErrs \cup {NoErr} :
       IF e # NoErr
       THEN /\ lastErr' = e
            /\ ret' = lambdaError(PullErrorMessage, e)
            /\ pc' = "deferSend"
       ELSE /\ pc' = "build"
            /\ UNCHANGED <<lastErr, ret>>
  /\ UNCHANGED <<inputs, parsed, early, dirCreated, wvars, cleanUps, bvars, now>>

\* handler.go:97-105 and buildIndex: either a step of buildIndex up to
\* GetIndexDescriptorCollection fails with e, or the collection is read
\* and the descriptor selected from it.
BuildIndex ==
  /\ pc = "build"
  /\ calls' = Called("buildIndex")
  /\ dirExists' \in Writes(dirExists)
  /\ \/ \E e \in BuildErrs :
          /\ lastErr' = e
          /\ ret' = OnBuildError(e)
          /\ pc' = "deferSend"
          /\ UNCHANGED <<collRead, descs, indexDescriptor>>
     \/ \E coll \in DescCollections : \E r \in SelectDescriptor(coll) :
          /\ collRead' = TRUE
          /\ descs' = coll
          /\ IF r.err # NoErr
             THEN /\ lastErr' = r.err
                  /\ ret' = OnBuildError(r.err)
                  /\ pc' = "deferSend"
                  /\ UNCHANGED indexDescriptor
             ELSE /\ indexDescriptor' = r.desc
                  /\ pc' = "push"
                  /\ UNCHANGED <<lastErr, ret>>
  /\ UNCHANGED <<inputs, parsed, early, dirCreated, wvars, cleanUps, pushed, now>>

\* handler.go:107-113
Push ==
  /\ pc = "push"
  /\ calls' = Called("Push")
  /\ pushed' = indexDescriptor
  /\ \E e \in PushErrs \cup {NoErr} :
       /\ lastErr' = e
       /\ ret' = OnPushResult(e)
  /\ pc' = "deferSend"
  /\ UNCHANGED <<inputs, parsed, early, dirCreated, dirExists, wvars, cleanUps,
                 collRead, descs, indexDescriptor, now>>

\* variant: quitChannel has a buffer of one, the send needs no receiver
DeferSend_buffered ==
  /\ pc = "deferSend"
  /\ watcher' = IF watcher = "Armed" THEN WatcherOnQuit ELSE watcher
  /\ quitSent' = TRUE
  /\ sendTime' = now
  /\ sends' = sends + 1
  /\ pc' = "deferCleanUp"
  /\ UNCHANGED <<inputs, parsed, early, lastErr, ret, dirCreated, dirExists,
                 trigger, timerConsumed, timeoutLogged, calls, cleanUps, bvars, now>>

\* variant: the send is started in a goroutine of its own and not waited for
DeferSend_async ==
  /\ pc = "deferSend"
  /\ pc' = "deferCleanUp"
  /\ UNCHANGED <<inputs, parsed, early, lastErr, ret, dirCreated, dirExists,
                 wvars, calls, cleanUps, bvars, now>>

\* handler.go:76-78 with handler.go:157-158: the send on the unbuffered
\* channel completes only together with the watcher's receive.
DeferSend ==
  /\ pc = "deferSend"
  /\ watcher = "Armed"
  /\ watcher' = WatcherOnQuit
  /\ quitSent' = TRUE
  /\ sendTime' = now
  /\ sends' = sends + 1
  /\ pc' = "deferCleanUp"
  /\ UNCHANGED <<inputs, parsed, early, lastErr, ret, dirCreated, dirExists,
                 trigger, timerConsumed, timeoutLogged, calls, cleanUps, bvars, now>>

\* variant: the two defers are registered in the other order, so cleanUp
\* runs before the send
DeferCleanUp_beforeSend ==
  /\ pc = "deferSend"
  /\ cleanUps.main = 0
  /\ dirExists' = cleanUp(dirExists)
  /\ cleanUps' = [cleanUps EXCEPT !.main = @ + 1]
  /\ UNCHANGED <<inputs, parsed, early, pc, lastErr, ret, dirCreated, wvars, calls,
                 bvars, now>>

\* handler.go:72: the deferred cleanUp, after which handleRequest returns ret.
DeferCleanUp ==
  /\ pc = "deferCleanUp"
  /\ dirExists' = cleanUp(dirExists)
  /\ cleanUps' = [cleanUps EXCEPT !.main = @ + 1]
  /\ pc' = "returned"
  /\ UNCHANGED <<inputs, parsed, early, lastErr, ret, dirCreated, wvars, calls,
                 bvars, now>>

\* variant: the timeout case returns without recording the timeout error
WatcherFire_skipsLog ==
  /\ watcher = "Armed"
  /\ TimerReady
  /\ timerConsumed' = TRUE
  /\ dirExists' = cleanUp(dirExists)
  /\ cleanUps' = [cleanUps EXCEPT !.watcher = @ + 1]
  /\ watcher' = WatcherOnFire
  /\ UNCHANGED <<inputs, parsed, early, pc, lastErr, ret, dirCreated, trigger,
                 timeoutLogged, quitSent, sendTime, sends, calls, bvars, now>>

\* handler.go:153-156: the watcher's timeout case.
WatcherFire ==
  /\ watcher = "Armed"
  /\ TimerReady
  /\ timerConsumed' = TRUE
  /\ dirExists' = cleanUp(dirExists)
  /\ cleanUps' = [cleanUps EXCEPT !.watcher = @ + 1]
  /\ timeoutLogged' = TRUE
  /\ watcher' = WatcherOnFire
  /\ UNCHANGED <<inputs, parsed, early, pc, lastErr, ret, dirCreated, trigger,
                 quitSent, sendTime, sends, calls, bvars, now>>

\* a second of wall-clock time passes while the invocation is running
Tick ==
  /\ pc \notin {"returned", "panicked"}
  /\ now < MaxTime
  /\ now' = now + 1
  /\ UNCHANGED <<inputs, parsed, early, pc, lastErr, ret, dirCreated, dirExists,
                 wvars, calls, cleanUps, bvars>>

MainFlow ==
  \/ Parse \/ RegistryInit \/ Validate \/ CreateTempDir \/ SetDeadline
  \/ InitSociStore \/ Pull \/ BuildIndex \/ Push \/ DeferSend \/ DeferCleanUp

Next == MainFlow \/ WatcherFire \/ Tick

Spec == Init /\ [][Next]_vars

\* goroutines that can run are eventually run
FairSpec == Spec /\ WF_vars(MainFlow) /\ WF_vars(WatcherFire) /\ WF_vars(Tick)

TypeOK ==
  /\ pc \in {"parse", "init", "validate", "mkdir", "setDeadline", "initStore", "pull",
             "build", "push", "deferSend", "deferCleanUp", "returned", "panicked"}
  /\ watcher \in {"NotStarted", "Armed", "Fired", "Cancelled"}
  /\ now \in 0..MaxTime

\* ---------------------------------------------------------------- claims
SkipValidation == [msg |-> ValidationSkipMessage, err |-> NoErr]

SkipEmptyIndex == [msg |-> SkipPushOnEmptyIndexMessage, err |-> NoErr]

Success == [msg |-> BuildAndPushSuccessMessage, err |-> NoErr]

\* the return statement has been executed (deferred calls may be pending)
Exiting == pc \in {"deferSend", "deferCleanUp", "returned"}

\* C1: when the reference parsed and ValidateImageManifest returned an
\* error, handleRequest has returned the validation skip message with a nil
\* error, and no workspace was created and pull, build and push were not called.
C1_ValidationSkip ==
  validateErr # NoErr =>
    /\ pc = "returned"
    /\ ret = SkipValidation
    /\ ~dirCreated
    /\ calls.createTempDir = 0 /\ calls.initSociStore = 0
    /\ calls.Pull = 0 /\ calls.buildIndex = 0 /\ calls.Push = 0

C1_Witness == validateErr # NoErr /\ pc = "returned" /\ Len(digest) > 0

\* C2: whenever the build reported the empty-index condition, with whatever
\* error value, handleRequest returns the empty-index skip message with a
\* nil error and Push was not called.
C2_EmptyIndexAlwaysSkips ==
  (lastErr.kind = "emptyIndex" /\ pc = "returned") =>
    (ret = SkipEmptyIndex /\ calls.Push = 0)

\* C3 as stated: after a successful buildIndex, Push was called exactly once
\* and handleRequest returns the success message with a nil error.
C3_AlwaysSuccessAfterBuild ==
  (indexDescriptor # NoDesc /\ pc = "returned") =>
    (calls.Push = 1 /\ ret = Success)

\* C3 (amended): after a successful buildIndex, Push is called exactly once;
\* handleRequest returns the success message with a nil error when that Push
\* returned nil, and the push error message with Push's error otherwise.
C3_PushOnceThenOutcome ==
  /\ calls.Push <= 1
  /\ (indexDescriptor # NoDesc /\ Exiting) =>
       /\ calls.Push = 1
       /\ ret = IF lastErr = NoErr
                THEN Success
                ELSE [msg |-> PushFailedMessage, err |-> lastErr]
  /\ indexDescriptor = NoDesc => calls.Push = 0

C3_Witness ==
  indexDescriptor # NoDesc /\ pc = "returned" /\ ret = Success /\ calls.Push = 1

\* C4: every invocation that started the watcher eventually returns its
\* outcome to the caller, whatever the interleaving with the watcher.
C4_EventuallyReturns == (watcher = "Armed") ~> (pc = "returned")

C6_CancelledBeforeTrigger ==
  (quitSent /\ sendTime < trigger) =>
    /\ watcher = "Cancelled"
    /\ cleanUps.watcher = 0
    /\ ~timeoutLogged

C6_Witness ==
  quitSent /\ sendTime < trigger /\ now >= trigger /\ watcher = "Cancelled"

\* the invocation can take no further step of its own
Finished == pc = "returned" \/ (pc = "deferSend" /\ watcher = "Fired")

\* C7: cleanUp is never executed by both the main flow and the watcher, and
\* when an invocation that created a workspace is finished it was executed
\* exactly once.
C7_DestroyedExactlyOnce ==
  /\ cleanUps.main + cleanUps.watcher <= 1
  /\ (Finished /\ dirCreated) => cleanUps.main + cleanUps.watcher = 1

C7_Witness ==
  pc = "returned" /\ dirCreated /\ now >= trigger /\ cleanUps.main = 1
  /\ cleanUps.watcher = 0

FailureLabel(kind) ==
  CASE kind = "mkdir" -> DirectoryErrorMessage
    [] kind = "store" -> StoreInitErrorMessage
    [] kind = "pull" -> PullErrorMessage
    [] kind = "build" -> BuildFailedMessage
    [] kind = "push" -> PushFailedMessage

\* C8: a failure of createTempDir, initSociStore, Pull, buildIndex (other
\* than the empty index) or Push is returned as its category label together
\* with the very error the collaborator produced.
C8_FailureLabelAndCause ==
  lastErr.kind \in {"mkdir", "store", "pull", "build", "push"} =>
    /\ lastErr # NoErr
    /\ ret = [msg |-> FailureLabel(lastErr.kind), err |-> lastErr]
    /\ (lastErr.kind = "mkdir" => pc = "returned")
    /\ Exiting

C8_Witness ==
  pc = "returned" /\ lastErr.kind = "pull" /\ ret.msg = PullErrorMessage
  /\ ret.err = lastErr

\* C9: an error of any collaborator call, Init included, ends in a returned
\* non-nil error unless validation failed or the index was empty; and a nil
\* error is returned only after a validation failure, an empty index, or
\* when every call including Init and Push succeeded.
C9_EveryErrorSurfaced ==
  /\ (initErr # NoErr /\ pc \in {"returned", "panicked"}
        /\ validateErr = NoErr /\ lastErr.kind # "emptyIndex")
       => (pc = "returned" /\ ret.err # NoErr)
  /\ (pc = "returned" /\ ret.err = NoErr) =>
       \/ validateErr # NoErr
       \/ lastErr.kind = "emptyIndex"
       \/ (initErr = NoErr /\ lastErr = NoErr /\ calls.Push = 1)

\* C10: when the collection holds two or more descriptors, the descriptor
\* buildIndex returned is one of them and no descriptor of the collection
\* was created later; it is the one handed to Push.
C10_LatestSelected ==
  (Len(descs) >= 2 /\ pc \in {"push", "deferSend", "deferCleanUp", "returned"}) =>
    /\ \E i \in 1..Len(descs) : descs[i] = indexDescriptor
    /\ \A i \in 1..Len(descs) : descs[i].CreatedAt <= indexDescriptor.CreatedAt
    /\ calls.Push = 1 => pushed = indexDescriptor

C10_Witness ==
  /\ Len(descs) >= 2
  /\ descs[1].CreatedAt > descs[2].CreatedAt
  /\ calls.Push = 1
  /\ pushed.CreatedAt = descs[1].CreatedAt

Contains(s, c) == \E i \in 1..Len(s) : s[i] = c

\* C11: for an input without a colon or without a path separator, parsing
\* ends in a returned malformed-reference error; the invocation does not
\* panic and neither Init nor ValidateImageManifest is called.
C11_MalformedRejected ==
  ((~Contains(imageUrl, ":") \/ ~Contains(imageUrl, "/")) /\ pc # "parse") =>
    /\ pc = "returned"
    /\ ret.err.kind = "malformedReference"
    /\ calls.Init = 0
    /\ calls.ValidateImageManifest = 0

\* the reference read by the grammar host "/" repository ":" digest
FirstIndex(s, c) == CHOOSE k \in 1..Len(s) : s[k] = c /\ \A j \in 1..(k-1) : s[j] # c

HostPart(url) == SubSeq(url, 1, FirstIndex(url, "/") - 1)

PathPart(url) == SubSeq(url, FirstIndex(url, "/") + 1, Len(url))

RepositoryPart(url) == SubSeq(PathPart(url), 1, FirstIndex(PathPart(url), ":") - 1)

DigestPart(url) ==
  SubSeq(PathPart(url), FirstIndex(PathPart(url), ":") + 1, Len(PathPart(url)))

\* host/repository:digest with an algorithm prefix in the digest
IsDigestForm(url) ==
  /\ Contains(url, "/")
  /\ Len(HostPart(url)) > 0 /\ ~Contains(HostPart(url), ":")
  /\ Contains(PathPart(url), ":")
  /\ Len(RepositoryPart(url)) > 0
  /\ Contains(DigestPart(url), ":")

\* C12: for an input host/repository:digest whose digest carries its
\* algorithm prefix, registryHost is the text before the first path
\* separator, digest is the whole non-empty digest with its prefix, and
\* repo is the repository without host prefix and digest suffix.
C12_ReferenceInvariant ==
  (IsDigestForm(imageUrl) /\ pc \notin {"parse", "panicked"}) =>
    /\ registryHost = HostPart(imageUrl)
    /\ digest = DigestPart(imageUrl)
    /\ Len(digest) > 0
    /\ repo = RepositoryPart(imageUrl)

\* C13: the steps run in the order parse, Init, validate, create workspace,
\* start watcher, init store, pull, build, push, each at most once and only
\* after all earlier ones; after a step produced a skip or a failure no
\* later step has been called.
C13_StrictSequence ==
  /\ \A f \in DOMAIN calls : calls[f] <= 1
  /\ calls.Init = 1 => pc # "parse"
  /\ calls.ValidateImageManifest = 1 => calls.Init = 1
  /\ calls.createTempDir = 1 => (calls.ValidateImageManifest = 1 /\ validateErr = NoErr)
  /\ watcher # "NotStarted" => (calls.createTempDir = 1 /\ dirCreated)
  /\ calls.initSociStore = 1 => watcher # "NotStarted"
  /\ calls.Pull = 1 => (calls.initSociStore = 1 /\ lastErr.kind # "store")
  /\ calls.buildIndex = 1 => (calls.Pull = 1 /\ lastErr.kind # "pull")
  /\ calls.Push = 1 =>
       (calls.buildIndex = 1 /\ indexDescriptor # NoDesc
          /\ lastErr.kind \notin {"build", "emptyIndex"})
  /\ (validateErr # NoErr \/ lastErr.kind = "mkdir") =>
       (watcher = "NotStarted" /\ calls.initSociStore = 0 /\ calls.Pull = 0
          /\ calls.buildIndex = 0 /\ calls.Push = 0)
  /\ lastErr.kind = "pull" => (calls.buildIndex = 0 /\ calls.Push = 0)
  /\ lastErr.kind \in {"build", "emptyIndex"} => calls.Push = 0

C13_Witness ==
  pc = "returned" /\ lastErr.kind = "pull" /\ calls.Pull = 1
  /\ calls.buildIndex = 0 /\ calls.Push = 0

\* C14 as stated: on every exit path, the validation skip and the workspace
\* failure included, the main flow has sent the cancellation signal once.
C14_SendOnEveryExit == pc = "returned" => sends = 1

\* C14 (amended): the send on quitChannel completes at most once; when
\* handleRequest returns after the watcher was started the send has
\* completed exactly once, and on the exits before the channel exists
\* (validation skip, workspace failure) no send is made.
C14_SendOncePerWatchedExit ==
  /\ sends <= 1
  /\ pc = "returned" => sends = (IF watcher = "NotStarted" THEN 0 ELSE 1)
  /\ sends = 1 => (quitSent /\ pc \in {"deferCleanUp", "returned"})

C14_Witness == pc = "returned" /\ sends = 1 /\ ret = SkipEmptyIndex

\* C15: whenever the main flow is about to run or has run its own cleanUp,
\* the cancellation send has completed and the watcher is Cancelled, not Armed.
C15_SendBeforeCleanUp ==
  (pc = "deferCleanUp" \/ cleanUps.main > 0) =>
    /\ sends = 1
    /\ quitSent
    /\ watcher = "Cancelled"

C15_Witness == cleanUps.main = 1 /\ quitSent /\ watcher = "Cancelled" /\ now >= trigger

\* a watcher that has left Armed keeps its state and calls cleanUp no more
WatcherStaysTerminated ==
  watcher \in {"Fired", "Cancelled"} =>
    (watcher' = watcher /\ (cleanUps').watcher = cleanUps.watcher)

\* C16: a started watcher eventually leaves Armed, to Fired or to Cancelled;
\* once it has left Armed its state no longer changes and it calls cleanUp
\* no more; it is Fired exactly when it has called cleanUp once and recorded
\* the timeout error.
C16_WatcherLeavesArmedOnce ==
  /\ (watcher = "Armed") ~> (watcher \in {"Fired", "Cancelled"})
  /\ [][WatcherStaysTerminated]_vars
  /\ [](watcher = "Fired" => (cleanUps.watcher = 1 /\ timeoutLogged))
  /\ [](watcher # "Fired" => (cleanUps.watcher = 0 /\ ~timeoutLogged))

C16_Witness ==
  watcher = "Fired" /\ cleanUps.watcher = 1 /\ timeoutLogged /\ now > trigger

\* C17: when the collection was read and holds no descriptor, handleRequest
\* exits with the build failure message and a non-nil error, and Push is
\* not called.
C17_NoDescriptorIsFailure ==
  (collRead /\ Len(descs) = 0) =>
    /\ Exiting
    /\ ret.msg = BuildFailedMessage
    /\ ret.err # NoErr
    /\ ret.err.text = NoIndicesText
    /\ indexDescriptor = NoDesc
    /\ calls.Push = 0

C17_Witness ==
  collRead /\ Len(descs) = 0 /\ pc = "returned" /\ ret.msg = BuildFailedMessage

\* a cleanUp by the watcher happens at or after deadline minus the margin
WatcherCleansNoEarlier ==
  (cleanUps').watcher > cleanUps.watcher => now >= deadline - SafetyMargin

\* the trigger time of a started watcher does not change
TriggerFixed == watcher # "NotStarted" => trigger' = trigger

\* C18: the watcher's cleanUp never runs before deadline minus the 10 second
\* margin, a time fixed when the watcher is started; an Armed watcher whose
\* trigger time is reached can fire, also before the store is initialised.
C18_NeverBeforeTrigger ==
  /\ [][WatcherCleansNoEarlier]_vars
  /\ [][TriggerFixed]_vars
  /\ [](watcher # "NotStarted" => trigger = deadline - 10)
  /\ []((watcher = "Armed" /\ now >= deadline - 10) => ENABLED WatcherFire)

C18_Witness ==
  watcher = "Fired" /\ deadline < 10 /\ now = 0 /\ calls.initSociStore = 0

\* what is in the workspace path after the watcher fired is not removed
ResidueStays == (watcher = "Fired" /\ dirExists) => dirExists'

\* C19: once the watcher is Fired the deferred send has not completed and
\* cannot complete, the main flow has not run and does not run its cleanUp
\* and does not return, and whatever a collaborator writes into the
\* workspace path after the watcher's deletion stays there.
C19_FiredLeavesResidue ==
  /\ [](watcher = "Fired" =>
          /\ ~quitSent /\ sends = 0
          /\ cleanUps.main = 0
          /\ pc \notin {"deferCleanUp", "returned"}
          /\ ~ENABLED DeferSend)
  /\ [][ResidueStays]_vars

C19_Witness ==
  watcher = "Fired" /\ pc = "deferSend" /\ dirExists /\ cleanUps.watcher = 1

\* C20: whenever handleRequest has returned after the watcher was started,
\* the watcher is Cancelled, has not called cleanUp and can no longer fire.
C20_NoWatcherAfterReturn ==
  (pc = "returned" /\ watcher # "NotStarted") =>
    /\ watcher = "Cancelled"
    /\ quitSent
    /\ cleanUps.watcher = 0
    /\ ~ENABLED WatcherFire

C20_Witness ==
  pc = "returned" /\ watcher = "Cancelled" /\ now >= trigger /\ ~timerConsumed
====
